---- MODULE Spec2Model ----
(***************************************************************************)
(* Model of parse_mas_fid.py: the contact-field interpreter               *)
(* (parse_person_field, _split_name_role) and the row-scanning pipeline   *)
(* (parse_mas_fid) with its two insertion-ordered registries, the         *)
(* relationship list, the dedup-key set and the finalize pass.            *)
(*                                                                         *)
(* A Python str is a tuple of one-character strings; None is the tuple    *)
(* NoneVal, which no str equals.  An OrderedDict of entities is the       *)
(* sequence of its values in insertion order (the key of an entity is its *)
(* canonicalName, lines 70/74 and 92/95).                                  *)
(***************************************************************************)
EXTENDS Integers, Sequences, FiniteSets, TLC

\* ------------------------------------------------------------------------
\* Characters and strings
\* ------------------------------------------------------------------------
UpperCase == <<"A","B","C","D","E","F","G","H","I","J","K","L","M",
               "N","O","P","Q","R","S","T","U","V","W","X","Y","Z">>

LowerCase == <<"a","b","c","d","e","f","g","h","i","j","k","l","m",
               "n","o","p","q","r","s","t","u","v","w","x","y","z">>

Digits == <<"0","1","2","3","4","5","6","7","8","9">>

Range(s) == {s[i] : i \in 1..Len(s)}

\* Position of c in the sequence s, 0 when c does not occur.
PosIn(c, s) == IF c \in Range(s)
               THEN CHOOSE i \in 1..Len(s) : s[i] = c /\ \A j \in 1..(i-1) : s[j] /= c
               ELSE 0

\* ord(c) for the ASCII characters the model uses; str comparison in
\* sorted() is by code point.
Ord(c) == CASE c = "\t" -> 9
            [] c = "\n" -> 10
            [] c = "\r" -> 13
            [] c = " "  -> 32
            [] c = "("  -> 40
            [] c = ")"  -> 41
            [] c = "+"  -> 43
            [] c = ","  -> 44
            [] c = "-"  -> 45
            [] c = "."  -> 46
            [] c = "_"  -> 95
            [] c \in Range(Digits)    -> 47 + PosIn(c, Digits)
            [] c \in Range(UpperCase) -> 64 + PosIn(c, UpperCase)
            [] c \in Range(LowerCase) -> 96 + PosIn(c, LowerCase)

\* None, and Python truthiness of a str-or-None value.
NoneVal == <<"None">>

Truthy(v) == v /= NoneVal /\ v /= <<>>

\* str.isspace / regex \s for one character.
IsSpace(c) == c \in {" ", "\t", "\n", "\r"}

\* str.isalpha / regex [A-Za-z] for one character.
IsAlpha(c) == c \in Range(UpperCase) \cup Range(LowerCase)

\* regex \d for one character.
IsDigit(c) == c \in Range(Digits)

SubStr(s, a, b) == [i \in 1..(IF b >= a THEN b - a + 1 ELSE 0) |-> s[a + i - 1]]

RECURSIVE LStrip(_)
LStrip(s) == IF s /= <<>> /\ IsSpace(Head(s)) THEN LStrip(Tail(s)) ELSE s

RECURSIVE RStrip(_)
RStrip(s) == IF s /= <<>> /\ IsSpace(s[Len(s)])
             THEN RStrip(SubStr(s, 1, Len(s) - 1))
             ELSE s

\* str.strip()
Strip(s) == RStrip(LStrip(s))

\* c.lower() for one character
LowerChar(c) == IF c \in Range(UpperCase) THEN LowerCase[PosIn(c, UpperCase)] ELSE c

\* str.lower()
Lower(s) == [i \in 1..Len(s) |-> LowerChar(s[i])]

\* a < b for two str, as Python compares them
RECURSIVE StrLess(_, _)
StrLess(a, b) ==
    IF a = <<>> THEN b /= <<>>
    ELSE IF b = <<>> THEN FALSE
    ELSE IF Head(a) = Head(b) THEN StrLess(Tail(a), Tail(b))
    ELSE Ord(Head(a)) < Ord(Head(b))

\* sorted(v) for a set v of str
RECURSIVE Sorted(_)
Sorted(v) ==
    IF v = {} THEN <<>>
    ELSE LET m == CHOOSE x \in v : \A y \in v \ {x} : StrLess(x, y)
         IN  <<m>> \o Sorted(v \ {m})

\* ------------------------------------------------------------------------
\* _split_name_role and parse_person_field
\* ------------------------------------------------------------------------

\* text.split(sep, 1) when sep occurs in text: <<before, after>>
SplitFirst(text, sep) ==
    LET i == PosIn(sep, text)
    IN  <<SubStr(text, 1, i - 1), SubStr(text, i + 1, Len(text))>>

\* Variant of SplitNameRole that looks for the comma first
SplitNameRole_CommaFirst(text) ==
    LET parts == IF "," \in Range(text) THEN SplitFirst(text, ",")
                 ELSE IF "-" \in Range(text) THEN SplitFirst(text, "-")
                 ELSE <<text, NoneVal>>
        name == parts[1]
        role == parts[2]
    IN  <<Strip(name), IF Truthy(role) THEN Strip(role) ELSE NoneVal>>

\* Variant of SplitNameRole that does not strip the two parts
SplitNameRole_NoStrip(text) ==
    LET parts == IF "-" \in Range(text) THEN SplitFirst(text, "-")
                 ELSE IF "," \in Range(text) THEN SplitFirst(text, ",")
                 ELSE <<text, NoneVal>>
        name == parts[1]
        role == parts[2]
    IN  <<name, IF Truthy(role) THEN role ELSE NoneVal>>

\* _split_name_role(text): <<name, role>>, role NoneVal when absent/empty
SplitNameRole(text) ==
    LET parts == IF "-" \in Range(text) THEN SplitFirst(text, "-")
                 ELSE IF "," \in Range(text) THEN SplitFirst(text, ",")
                 ELSE <<text, NoneVal>>
        name == parts[1]
        role == parts[2]
    IN  <<Strip(name), IF Truthy(role) THEN Strip(role) ELSE NoneVal>>

\* The shape both regexes share after their first character:
\*   [^()]*? \s* \( [^)]+ \)
\* The '(' matched is the first '(' of value, no ')' precedes it, and the
\* group in parentheses runs to the first ')' and is not empty.
OpenPos(value) == PosIn("(", value)

ClosePos(value) == PosIn(")", value)

ParenShape(value) ==
    /\ OpenPos(value) >= 2
    /\ ClosePos(value) > OpenPos(value) + 1

\* End of the lazy leading group: the shortest prefix (at least one
\* character) that only whitespace separates from the '('.
LazyEnd(value) ==
    CHOOSE k \in 1..(OpenPos(value) - 1) :
        /\ \A j \in (k+1)..(OpenPos(value) - 1) : IsSpace(value[j])
        /\ \A k2 \in 1..(k-1) : \E j \in (k2+1)..(OpenPos(value) - 1) : ~IsSpace(value[j])

LeadGroup(value) == SubStr(value, 1, LazyEnd(value))

ParenGroup(value) == SubStr(value, OpenPos(value) + 1, ClosePos(value) - 1)

\* '.*' : up to, not including, the first newline
UpToNewline(s) == IF "\n" \in Range(s) THEN SubStr(s, 1, PosIn("\n", s) - 1) ELSE s

\* The phone group of the first regex:  \) \s* -? \s* (?P<phone>.*)
TrailGroup(value) ==
    LET rest == LStrip(SubStr(value, ClosePos(value) + 1, Len(value)))
        afterHyphen == IF rest /= <<>> /\ Head(rest) = "-" THEN Tail(rest) ELSE rest
    IN  UpToNewline(LStrip(afterHyphen))

\* re.match of "Name (Role) -phone" succeeds
MatchesA(value) == value /= <<>> /\ IsAlpha(value[1]) /\ ParenShape(value)

\* re.match of "phone (inside)" succeeds
MatchesB(value) == value /= <<>> /\ (value[1] = "+" \/ IsDigit(value[1])) /\ ParenShape(value)

OrNone(s) == IF s = <<>> THEN NoneVal ELSE s

\* parse_person_field(value): NoneVal, or <<name, role, phone>>
parse_person_field(raw) ==
    IF ~Truthy(raw) THEN NoneVal
    ELSE LET value == Strip(raw)
         IN  IF MatchesA(value)
             THEN <<Strip(LeadGroup(value)), Strip(ParenGroup(value)),
                    OrNone(Strip(TrailGroup(value)))>>
             ELSE IF MatchesB(value)
                     /\ \E i \in 1..Len(Strip(ParenGroup(value))) :
                            IsAlpha(Strip(ParenGroup(value))[i])
             THEN LET nr == SplitNameRole(Strip(ParenGroup(value)))
                  IN  <<nr[1], nr[2], OrNone(Strip(LeadGroup(value)))>>
             ELSE NoneVal

\* ------------------------------------------------------------------------
\* csv.DictReader rows
\* ------------------------------------------------------------------------
ORG == "Organisation Name"

PHONE == "Phone Number"

\* DictReader's restkey (Python None used as a dict key)
RestKey == "<restkey>"

Min(a, b) == IF a < b THEN a ELSE b

\* The dict DictReader builds from the header and one record's fields, as
\* the sequence of its items in insertion order.  A short record gets
\* restval None for the missing columns; a long record gets its surplus
\* fields as a list under restkey.
DictRow(names, fields) ==
    [i \in 1..Min(Len(names), Len(fields)) |->
        [key |-> names[i], t |-> "str", v |-> fields[i]]]
    \o [i \in 1..(Len(names) - Min(Len(names), Len(fields))) |->
        [key |-> names[Len(fields) + i], t |-> "none", v |-> NoneVal]]
    \o (IF Len(fields) > Len(names)
        THEN <<[key |-> RestKey, t |-> "list",
                v |-> SubStr(fields, Len(names) + 1, Len(fields))]>>
        ELSE <<>>)

HasKey(row, k) == \E i \in 1..Len(row) : row[i].key = k

\* row.get(k, default)
Get(row, k, default) ==
    IF HasKey(row, k)
    THEN row[CHOOSE i \in 1..Len(row) : row[i].key = k].v
    ELSE default

\* ------------------------------------------------------------------------
\* Entities, registries, relationships
\* ------------------------------------------------------------------------
CompanyPrefix == <<"C","O","M","P","A","N","Y","_">>

PersonPrefix == <<"P","E","R","S","O","N","_">>

\* str(n) for n >= 0
RECURSIVE Decimal(_)
Decimal(n) == IF n < 10 THEN <<Digits[n + 1]>>
              ELSE Decimal(n \div 10) \o <<Digits[(n % 10) + 1]>>

\* f"COMPANY_{n}" / f"PERSON_{n}"
EntityId(prefix, n) == prefix \o Decimal(n)

EmptyAttrs == [k \in {} |-> {}]

NewEntity(prefix, type, n, name) ==
    [entityId |-> EntityId(prefix, n), type |-> type, canonicalName |-> name,
     mentions |-> <<name>>, attributes |-> EmptyAttrs]

\* Index in the registry of the entity stored under key name, 0 if none
\* ("name in companies").
Lookup(reg, name) ==
    IF \E i \in 1..Len(reg) : reg[i].canonicalName = name
    THEN CHOOSE i \in 1..Len(reg) : reg[i].canonicalName = name
    ELSE 0

\* Variant of NextOrdinal that counts from 0
NextOrdinal_ZeroBased(reg) == Len(reg)

\* Ordinal of the next entity of a registry: len(registry) + 1
NextOrdinal(reg) == Len(reg) + 1

\* Variant of GetOrCreate that records every sighting as a mention
GetOrCreate_MentionAgain(reg, prefix, type, name) ==
    IF Lookup(reg, name) = 0
    THEN Append(reg, NewEntity(prefix, type, NextOrdinal(reg), name))
    ELSE [reg EXCEPT ![Lookup(reg, name)].mentions = Append(@, name)]

\* Variant of GetOrCreate without the membership test
GetOrCreate_AlwaysAppend(reg, prefix, type, name) ==
    Append(reg, NewEntity(prefix, type, NextOrdinal(reg), name))

\* lines 66-74 and 91-98: insert on first sight, else leave the registry alone
GetOrCreate(reg, prefix, type, name) ==
    IF Lookup(reg, name) = 0
    THEN Append(reg, NewEntity(prefix, type, NextOrdinal(reg), name))
    ELSE reg

\* Variant of AddAttr that replaces the value set
AddAttr_Overwrite(attrs, key, value) ==
    [k \in DOMAIN attrs \cup {key} |->
        IF k = key THEN [kind |-> "set", v |-> {value}] ELSE attrs[k]]

\* attrs.setdefault(key, set()).add(value)
AddAttr(attrs, key, value) ==
    [k \in DOMAIN attrs \cup {key} |->
        IF k = key
        THEN [kind |-> "set",
              v |-> (IF key \in DOMAIN attrs THEN attrs[key].v ELSE {}) \cup {value}]
        ELSE attrs[k]]

\* Variant of company_name without the strip
company_name_NoStrip(row) == Get(row, ORG, <<>>)

\* line 62: row.get("Organisation Name", "").strip(); NoneVal stands for the
\* AttributeError raised when the value is None
company_name(row) ==
    IF Get(row, ORG, <<>>) = NoneVal THEN NoneVal ELSE Strip(Get(row, ORG, <<>>))

\* lines 78-85: the loop over row.items() from item i on.  ok is FALSE
\* when value.strip() raises (value None or a list); attrs then holds what
\* the loop had added before the exception.
RECURSIVE AddRowAttributes(_, _, _)
AddRowAttributes(attrs, row, i) ==
    IF i > Len(row) THEN [ok |-> TRUE, attrs |-> attrs]
    ELSE IF row[i].key = ORG THEN AddRowAttributes(attrs, row, i + 1)
    ELSE IF row[i].t /= "str" THEN [ok |-> FALSE, attrs |-> attrs]
    ELSE IF Strip(row[i].v) = <<>> THEN AddRowAttributes(attrs, row, i + 1)
    ELSE AddRowAttributes(AddAttr(attrs, row[i].key, Strip(row[i].v)), row, i + 1)

SetAttrs(reg, idx, attrs) == [reg EXCEPT ![idx].attributes = attrs]

\* Variant of RelationKey built from the lower-cased role
RelationKey_LowerCased(personId, compId, role) ==
    <<personId, compId, IF Truthy(role) THEN Lower(role) ELSE <<>>>>

\* line 103: the dedup key, role or ""
RelationKey(personId, compId, role) ==
    <<personId, compId, IF Truthy(role) THEN role ELSE <<>>>>

\* Variant of StoredRole that lower-cases whatever is not None
StoredRole_EmptyKept(role) == IF role /= NoneVal THEN Lower(role) ELSE NoneVal

\* line 110: role.lower() if role else None
StoredRole(role) == IF Truthy(role) THEN Lower(role) ELSE NoneVal

\* Variant of NewRelationship with source and target exchanged
NewRelationship_Swapped(personId, compId, role) ==
    [sourceEntityId |-> compId, targetEntityId |-> personId,
     role |-> StoredRole(role), effectiveDate |-> NoneVal]

\* lines 106-113
NewRelationship(personId, compId, role) ==
    [sourceEntityId |-> personId, targetEntityId |-> compId,
     role |-> StoredRole(role), effectiveDate |-> NoneVal]

\* Variant of Relate that puts the new relationship first
Relate_Prepend(st, persons1, pi, ci, role, key) ==
    IF key \in st.relation_keys
    THEN [st EXCEPT !.persons = persons1]
    ELSE [st EXCEPT !.persons = persons1,
                    !.relation_keys = @ \cup {key},
                    !.relationships =
                        <<NewRelationship(persons1[pi].entityId,
                                          st.companies[ci].entityId, role)>> \o @]

\* Variant of Relate without the membership test on the key
Relate_NoDedup(st, persons1, pi, ci, role, key) ==
    [st EXCEPT !.persons = persons1,
               !.relation_keys = @ \cup {key},
               !.relationships = Append(@,
                   NewRelationship(persons1[pi].entityId,
                                   st.companies[ci].entityId, role))]

\* lines 103-113: the row's person is persons[pi], its company
\* st.companies[ci]; persons is the registry after lines 91-101
Relate(st, persons1, pi, ci, role, key) ==
    IF key \in st.relation_keys
    THEN [st EXCEPT !.persons = persons1]
    ELSE [st EXCEPT !.persons = persons1,
                    !.relation_keys = @ \cup {key},
                    !.relationships = Append(@,
                        NewRelationship(persons1[pi].entityId,
                                        st.companies[ci].entityId, role))]

\* lines 99-103: person = persons[name], the phone attribute, the key
WithPerson(st, persons1, pi, ci, role, phone) ==
    Relate(st,
           IF Truthy(phone)
           THEN SetAttrs(persons1, pi, AddAttr(persons1[pi].attributes, PHONE, phone))
           ELSE persons1,
           pi, ci, role,
           RelationKey(persons1[pi].entityId, st.companies[ci].entityId, role))

\* lines 90-98
RegisterPerson(st, persons1, ci, name, role, phone) ==
    WithPerson(st, persons1, Lookup(persons1, name), ci, role, phone)

\* Variant of WithPersonInfo that registers a nameless person when the
\* contact field gave none
WithPersonInfo_Anonymous(st, ci, person_info) ==
    IF Len(person_info) /= 3
    THEN RegisterPerson(st, GetOrCreate(st.persons, PersonPrefix, "Person", <<>>),
                        ci, <<>>, NoneVal, NoneVal)
    ELSE RegisterPerson(st,
             GetOrCreate(st.persons, PersonPrefix, "Person", person_info[1]),
             ci, person_info[1], person_info[2], person_info[3])

\* lines 89-113: person_info is what parse_person_field returned
WithPersonInfo(st, ci, person_info) ==
    IF Len(person_info) /= 3 THEN st
    ELSE RegisterPerson(st,
             GetOrCreate(st.persons, PersonPrefix, "Person", person_info[1]),
             ci, person_info[1], person_info[2], person_info[3])

\* lines 88-113 for a row whose attribute loop finished: st is the
\* pipeline state after the loop, ci the index of the row's company
PersonStep(st, row, ci) ==
    WithPersonInfo(st, ci, parse_person_field(Get(row, PHONE, <<>>)))

\* lines 78-113: loop is what the attribute loop returned
AfterLoop(st, row, companies1, ci, loop) ==
    IF ~loop.ok
    THEN [status |-> "error",
          st |-> [st EXCEPT !.companies = SetAttrs(companies1, ci, loop.attrs)]]
    ELSE [status |-> "ok",
          st |-> PersonStep([st EXCEPT !.companies = SetAttrs(companies1, ci, loop.attrs)],
                            row, ci)]

\* lines 76-113: comp = companies[company_name]
WithCompany(st, row, companies1, ci) ==
    AfterLoop(st, row, companies1, ci,
              AddRowAttributes(companies1[ci].attributes, row, 1))

\* lines 63-113: name is the row's company_name
WithCompanyName(st, row, name) ==
    IF name = NoneVal THEN [status |-> "error", st |-> st]
    ELSE IF ~Truthy(name) THEN [status |-> "skip", st |-> st]
    ELSE WithCompany(st, row,
                     GetOrCreate(st.companies, CompanyPrefix, "Company", name),
                     Lookup(GetOrCreate(st.companies, CompanyPrefix, "Company", name),
                            name))

\* One iteration of the for loop (lines 61-113) on the pipeline state st.
\* status is "skip" (line 64), "ok", or "error" (an exception left the loop).
process_row(st, row) == WithCompanyName(st, row, company_name(row))

\* Variant of FinalValue without the isinstance test: a scalar of several
\* characters is taken for a collection and becomes the list of its characters
FinalValue_NoTypeCheck(a) ==
    IF a.kind = "set"
    THEN IF Cardinality(a.v) = 1
         THEN [kind |-> "scalar", v |-> CHOOSE x \in a.v : TRUE]
         ELSE [kind |-> "list", v |-> Sorted(a.v)]
    ELSE IF a.kind = "scalar" /\ Len(a.v) /= 1
    THEN [kind |-> "list", v |-> [i \in 1..Len(a.v) |-> <<a.v[i]>>]]
    ELSE a

\* Variant of FinalValue that never collapses a singleton
FinalValue_NoCollapse(a) ==
    IF a.kind = "set" THEN [kind |-> "list", v |-> Sorted(a.v)] ELSE a

\* finalize(entity), lines 115-123
FinalValue(a) ==
    IF a.kind = "set"
    THEN IF Cardinality(a.v) = 1
         THEN [kind |-> "scalar", v |-> CHOOSE x \in a.v : TRUE]
         ELSE [kind |-> "list", v |-> Sorted(a.v)]
    ELSE a

finalize(entity) ==
    [entity EXCEPT !.attributes = [k \in DOMAIN @ |-> FinalValue(@[k])]]

FinalizeAll(reg) == [i \in 1..Len(reg) |-> finalize(reg[i])]

\* Variant of OutputEntities with the two registries swapped
OutputEntities_PersonsFirst(cs, ps) == ps \o cs

\* line 125
OutputEntities(cs, ps) == cs \o ps

\* ------------------------------------------------------------------------
\* Inputs
\* ------------------------------------------------------------------------
MaxRows == 2

\* Three headers: the contact column before the organisation column, a file
\* without a contact column, a file with neither of the two columns.
Headers == { <<PHONE, ORG>>, <<ORG, "Address">>, <<"Address">> }

OrgValues == { <<" ">>, <<"A", " ">>, <<"B">> }

AddressValues == { <<>>, <<" ", "x">>, <<"y">> }

PhoneValues ==
    { <<>>,
      <<"A","l"," ","(","C","E","O",")"," ","-","1","2">>,
      <<"1"," ","(","A","l","-","c","e","o",")">>,
      <<"1"," ","(","-","C","E","O",")">>,
      <<"3"," ","(","A","l",")">>,
      <<"A","l"," ","("," ",")">>,
      <<"1"," ","(","1","2",")">>,
      <<"2"," ","(","B","o",",","x",")">> }

SurplusValues == { <<"z">> }

ColumnValues(name) ==
    IF name = ORG THEN OrgValues
    ELSE IF name = PHONE THEN PhoneValues
    ELSE AddressValues

FieldValues(names, i) ==
    IF i <= Len(names) THEN ColumnValues(names[i]) ELSE SurplusValues

RECURSIVE RecordsOfLen(_, _)
RecordsOfLen(names, n) ==
    IF n = 0 THEN { <<>> }
    ELSE { Append(f, v) : f \in RecordsOfLen(names, n - 1), v \in FieldValues(names, n) }

\* The records a file with header names can hold: 1 to Len(names)+1 fields
\* (the reader yields nothing for an empty line).
Records(names) == UNION { RecordsOfLen(names, n) : n \in 1..(Len(names) + 1) }

\* ------------------------------------------------------------------------
\* The pipeline as a state machine
\* ------------------------------------------------------------------------
VARIABLES
    fieldnames,     \* reader.fieldnames, the header of the file
    pc,             \* "scan" in the for loop, "done" after return, "error" after an exception
    companies,      \* OrderedDict of Company entities, in insertion order
    persons,        \* OrderedDict of Person entities, in insertion order
    relationships,  \* list of relationship dicts
    relation_keys,  \* set of dedup keys
    entities,       \* the returned entity list (empty until the return)
    processed,      \* history: the records the loop has consumed, in order
    contact,        \* a contact field in three parts: lead ( inside ) trail
    parsed          \* <<>> until parse_person_field has run on contact, then its result

vars == <<fieldnames, pc, companies, persons, relationships, relation_keys,
          entities, processed, contact, parsed>>

NoContact == [lead |-> <<>>, inside |-> <<>>, trail |-> <<>>]

\* The pipeline state process_row works on
Cur == [companies |-> companies, persons |-> persons,
        relationships |-> relationships, relation_keys |-> relation_keys]

Init ==
    /\ fieldnames \in Headers
    /\ pc = "scan"
    /\ companies = <<>>
    /\ persons = <<>>
    /\ relationships = <<>>
    /\ relation_keys = {}
    /\ entities = <<>>
    /\ processed = <<>>
    /\ contact = NoContact
    /\ parsed = <<>>

\* The loop body has run on the next record with result r
RowResult(fields, r, status, nextpc) ==
    /\ r.status = status
    /\ companies' = r.st.companies
    /\ persons' = r.st.persons
    /\ relationships' = r.st.relationships
    /\ relation_keys' = r.st.relation_keys
    /\ processed' = Append(processed, fields)
    /\ pc' = nextpc
    /\ UNCHANGED <<fieldnames, entities, contact, parsed>>

\* The loop body runs on the next record and ends with the given status.
RowStep(fields, status, nextpc) ==
    RowResult(fields, process_row(Cur, DictRow(fieldnames, fields)), status, nextpc)

\* lines 62-64: blank organisation name, continue
SkipRow ==
    /\ pc = "scan"
    /\ Len(processed) < MaxRows
    /\ \E fields \in Records(fieldnames) : RowStep(fields, "skip", "scan")

\* lines 62-113: a row with an organisation name
ProcessRow ==
    /\ pc = "scan"
    /\ Len(processed) < MaxRows
    /\ \E fields \in Records(fieldnames) : RowStep(fields, "ok", "scan")

\* lines 62 and 81: .strip() raises AttributeError, parse_mas_fid is left
RowError ==
    /\ pc = "scan"
    /\ Len(processed) < MaxRows
    /\ \E fields \in Records(fieldnames) : RowStep(fields, "error", "error")

\* lines 125-126: the reader is exhausted; finalize every entity in place
\* and return
Finalize ==
    /\ pc = "scan"
    /\ companies' = FinalizeAll(companies)
    /\ persons' = FinalizeAll(persons)
    /\ entities' = OutputEntities(companies', persons')
    /\ pc' = "done"
    /\ UNCHANGED <<fieldnames, relationships, relation_keys, processed, contact, parsed>>

Next == SkipRow \/ ProcessRow \/ RowError \/ Finalize

Spec == Init /\ [][Next]_vars

\* ------------------------------------------------------------------------
\* parse_person_field on its own: one call on a contact field
\* ------------------------------------------------------------------------
MaxInside == 4

LeadValues == { <<"1">>, <<"+","6"," ">>, <<"A","l"," ">> }

InsideChars == { "A", "b", "1", "-", ",", " " }

TrailValues == { <<>>, <<" ","-","7">> }

RECURSIVE StringsOfLen(_, _)
StringsOfLen(chars, n) ==
    IF n = 0 THEN { <<>> }
    ELSE { Append(t, c) : t \in StringsOfLen(chars, n - 1), c \in chars }

InsideValues == UNION { StringsOfLen(InsideChars, n) : n \in 1..MaxInside }

\* The text of a contact field given in parts
ContactText(c) == c.lead \o <<"(">> \o c.inside \o <<")">> \o c.trail

ParseInit ==
    /\ contact \in [lead : LeadValues, inside : InsideValues, trail : TrailValues]
    /\ parsed = <<>>
    /\ fieldnames = <<PHONE>>
    /\ pc = "scan"
    /\ companies = <<>>
    /\ persons = <<>>
    /\ relationships = <<>>
    /\ relation_keys = {}
    /\ entities = <<>>
    /\ processed = <<>>

\* person_info = parse_person_field(...) (line 88) on the contact field
Interpret ==
    /\ parsed = <<>>
    /\ parsed' = parse_person_field(ContactText(contact))
    /\ UNCHANGED <<fieldnames, pc, companies, persons, relationships, relation_keys,
                   entities, processed, contact>>

ParseNext == Interpret

ParseSpec == ParseInit /\ [][ParseNext]_vars

\* ------------------------------------------------------------------------
\* What the consumed records say, read off the history
\* ------------------------------------------------------------------------

\* The text of column name in record f, a missing value read as empty
ColumnField(f, name) ==
    IF \E i \in 1..Min(Len(fieldnames), Len(f)) : fieldnames[i] = name
    THEN f[CHOOSE i \in 1..Min(Len(fieldnames), Len(f)) : fieldnames[i] = name]
    ELSE <<>>

OrgName(f) == Strip(ColumnField(f, ORG))

HasOrg(f) == OrgName(f) /= <<>>

Contact(f) == parse_person_field(ColumnField(f, PHONE))

HasPerson(f) == HasOrg(f) /\ Len(Contact(f)) = 3

PersonName(f) == Contact(f)[1]

RECURSIVE Dedup(_)
Dedup(s) ==
    IF s = <<>> THEN <<>>
    ELSE LET d == Dedup(SubStr(s, 1, Len(s) - 1))
         IN  IF s[Len(s)] \in Range(d) THEN d ELSE Append(d, s[Len(s)])

\* Distinct organisation names / person names in order of first sighting
CompaniesSeen ==
    LET rows == SelectSeq(processed, HasOrg)
    IN  Dedup([n \in 1..Len(rows) |-> OrgName(rows[n])])

PersonsSeen ==
    LET rows == SelectSeq(processed, HasPerson)
    IN  Dedup([n \in 1..Len(rows) |-> PersonName(rows[n])])

\* The entities the pipeline holds: the returned list once it has returned
Ents == IF pc = "done" THEN entities ELSE companies \o persons

OfType(type) == SelectSeq(Ents, LAMBDA e : e.type = type)

CountNamed(type, name) ==
    Cardinality({ i \in 1..Len(Ents) :
                    Ents[i].type = type /\ Ents[i].canonicalName = name })

\* The values an attribute holds, before or after finalize
ValueSet(a) ==
    IF a.kind = "set" THEN a.v
    ELSE IF a.kind = "scalar" THEN {a.v}
    ELSE Range(a.v)

\* ------------------------------------------------------------------------
\* Claims
\* ------------------------------------------------------------------------

\* C1: while the pipeline has not failed, there is exactly one Company
\* entity for the trimmed organisation name of every consumed row that has
\* one, exactly one Person entity for the name extracted from every such
\* row's contact field, and no two entities of a type share a canonical
\* name.
C1_OneEntityPerName ==
    pc /= "error" =>
        /\ \A n \in 1..Len(processed) :
              /\ HasOrg(processed[n]) => CountNamed("Company", OrgName(processed[n])) = 1
              /\ HasPerson(processed[n]) => CountNamed("Person", PersonName(processed[n])) = 1
        /\ \A i, j \in 1..Len(Ents) :
              (Ents[i].type = Ents[j].type
                 /\ Ents[i].canonicalName = Ents[j].canonicalName) => i = j

C1_Witness ==
    /\ pc = "done"
    /\ Len(processed) = 2
    /\ HasPerson(processed[1]) /\ HasPerson(processed[2])
    /\ processed[1] /= processed[2]
    /\ OrgName(processed[1]) = OrgName(processed[2])
    /\ PersonName(processed[1]) = PersonName(processed[2])
    /\ Len(entities) = 2

\* C2: the k-th distinct organisation name first seen is the k-th company
\* and has id COMPANY_k, the k-th distinct person name first seen is the
\* k-th person and has id PERSON_k; as the history only grows, an id once
\* given is never given again nor changed.
C2_IdsInFirstSeenOrder ==
    pc /= "error" =>
        /\ Len(OfType("Company")) = Len(CompaniesSeen)
        /\ Len(OfType("Person")) = Len(PersonsSeen)
        /\ \A k \in 1..Len(CompaniesSeen) :
              /\ OfType("Company")[k].canonicalName = CompaniesSeen[k]
              /\ OfType("Company")[k].entityId = CompanyPrefix \o <<Digits[k + 1]>>
        /\ \A k \in 1..Len(PersonsSeen) :
              /\ OfType("Person")[k].canonicalName = PersonsSeen[k]
              /\ OfType("Person")[k].entityId = PersonPrefix \o <<Digits[k + 1]>>

C2_Witness ==
    /\ pc = "scan"
    /\ Len(companies) = 2
    /\ Len(persons) = 2
    /\ companies[2].entityId = <<"C","O","M","P","A","N","Y","_","2">>
    /\ persons[2].entityId = <<"P","E","R","S","O","N","_","2">>

\* C3: no two relationships have the same (sourceEntityId, targetEntityId,
\* role), role being the stored (lower-cased or null) value.
C3_NoDuplicateRelationships ==
    \A i, j \in 1..Len(relationships) :
        (/\ relationships[i].sourceEntityId = relationships[j].sourceEntityId
         /\ relationships[i].targetEntityId = relationships[j].targetEntityId
         /\ relationships[i].role = relationships[j].role) => i = j

\* C4: for every Company entity and every column other than the
\* organisation name, the attribute's values are the non-empty trimmed
\* values of that column over the consumed rows with that organisation
\* name, and the attribute is absent when there is no such value.
C4_AttributesAreUnion ==
    pc /= "error" =>
        \A i \in 1..Len(OfType("Company")) :
            LET e == OfType("Company")[i]
            IN  \A c \in (Range(fieldnames) \cup DOMAIN e.attributes) \ {ORG} :
                    LET U == { Strip(ColumnField(processed[n], c)) :
                                 n \in { m \in 1..Len(processed) :
                                           OrgName(processed[m]) = e.canonicalName } }
                             \ { <<>> }
                    IN  IF U = {} THEN c \notin DOMAIN e.attributes
                        ELSE c \in DOMAIN e.attributes /\ ValueSet(e.attributes[c]) = U

C4_Witness ==
    /\ pc = "scan"
    /\ Len(companies) = 1
    /\ "Address" \in DOMAIN companies[1].attributes
    /\ companies[1].attributes["Address"].v = { <<"x">>, <<"y">> }

\* C5: the return finalizes every attribute of every entity by
\* cardinality: one accumulated value becomes that value as a scalar, two
\* or more become the strictly ascending (so duplicate-free) sequence of
\* exactly those values; no attribute stays a set and none is empty.
C5_FinalizedByCardinality ==
    [][(pc = "scan" /\ pc' = "done") =>
        /\ Len(entities') = Len(companies \o persons)
        /\ \A i \in 1..Len(entities') :
            LET before == (companies \o persons)[i].attributes
                after  == entities'[i].attributes
            IN  /\ DOMAIN after = DOMAIN before
                /\ \A k \in DOMAIN before :
                    /\ before[k].v /= {}
                    /\ after[k].kind \in {"scalar", "list"}
                    /\ Cardinality(before[k].v) = 1 =>
                          after[k].kind = "scalar" /\ after[k].v \in before[k].v
                    /\ Cardinality(before[k].v) >= 2 =>
                          /\ after[k].kind = "list"
                          /\ Range(after[k].v) = before[k].v
                          /\ \A a, b \in 1..Len(after[k].v) :
                                a < b => StrLess(after[k].v[a], after[k].v[b])]_vars

C5_Witness ==
    /\ pc = "done"
    /\ \E i \in 1..Len(entities) : \E k \in DOMAIN entities[i].attributes :
          entities[i].attributes[k].kind = "list" /\ Len(entities[i].attributes[k].v) = 2
    /\ \E i \in 1..Len(entities) : \E k \in DOMAIN entities[i].attributes :
          entities[i].attributes[k].kind = "scalar"

\* The relationship a consumed row with a person stands for
IdOf(type, name) ==
    Ents[CHOOSE i \in 1..Len(Ents) :
            Ents[i].type = type /\ Ents[i].canonicalName = name].entityId

ExpectedRole(f) ==
    IF Contact(f)[2] = NoneVal \/ Contact(f)[2] = <<>> THEN NoneVal
    ELSE Lower(Contact(f)[2])

\* C6: every stored role is null or a non-empty string without upper-case
\* letters, and every consumed row with a person has its relationship with
\* role null when the extracted role is null or empty, else the extracted
\* role lower-cased.
C6_RoleNullOrLower ==
    pc /= "error" =>
        /\ \A i \in 1..Len(relationships) :
              \/ relationships[i].role = NoneVal
              \/ /\ relationships[i].role /= <<>>
                 /\ Range(relationships[i].role) \cap Range(UpperCase) = {}
        /\ \A n \in 1..Len(processed) :
              HasPerson(processed[n]) =>
                 \E i \in 1..Len(relationships) :
                    /\ relationships[i].sourceEntityId = IdOf("Person", PersonName(processed[n]))
                    /\ relationships[i].targetEntityId = IdOf("Company", OrgName(processed[n]))
                    /\ relationships[i].role = ExpectedRole(processed[n])

C6_Witness ==
    /\ pc = "done"
    /\ Len(processed) = 2
    /\ HasPerson(processed[1]) /\ Contact(processed[1])[2] = <<>>
    /\ HasPerson(processed[2]) /\ Contact(processed[2])[2] = <<"C","E","O">>
    /\ Len(relationships) = 2
    /\ relationships[1].role = NoneVal
    /\ relationships[2].role = <<"c","e","o">>

\* C7: no row aborts the pipeline.
C7_NeverAborts == pc /= "error"

\* C8: every entity has a non-empty, trimmed canonical name.
C8_NamesNonEmpty ==
    \A i \in 1..Len(Ents) :
        /\ Ents[i].canonicalName /= <<>>
        /\ Strip(Ents[i].canonicalName) = Ents[i].canonicalName

\* C9: consuming a row whose organisation name is absent or blank after
\* trim leaves the company registry, the person registry (so every
\* attribute set), the relationship list and the dedup-key set unchanged.
C9_BlankOrgRowChangesNothing ==
    [][(pc = "scan" /\ Len(processed') = Len(processed) + 1
          /\ ~HasOrg(processed'[Len(processed')]))
        => UNCHANGED <<companies, persons, relationships, relation_keys>>]_vars

C9_Witness ==
    /\ pc = "scan"
    /\ Len(processed) = 2
    /\ HasOrg(processed[1])
    /\ ~HasOrg(processed[2])
    /\ Len(parse_person_field(ColumnField(processed[2], PHONE))) = 3
    /\ Len(companies) = 1
    /\ persons = <<>>

\* C10: in the returned list every Company precedes every Person, and
\* each type is in first-seen order, the i-th of its type having ordinal i.
C10_CompaniesThenPersons ==
    pc = "done" =>
        /\ Len(entities) = Len(CompaniesSeen) + Len(PersonsSeen)
        /\ \A i \in 1..Len(CompaniesSeen) :
              /\ entities[i].type = "Company"
              /\ entities[i].canonicalName = CompaniesSeen[i]
              /\ entities[i].entityId = CompanyPrefix \o <<Digits[i + 1]>>
        /\ \A i \in 1..Len(PersonsSeen) :
              /\ entities[Len(CompaniesSeen) + i].type = "Person"
              /\ entities[Len(CompaniesSeen) + i].canonicalName = PersonsSeen[i]
              /\ entities[Len(CompaniesSeen) + i].entityId = PersonPrefix \o <<Digits[i + 1]>>

C10_Witness ==
    /\ pc = "done"
    /\ Len(entities) = 4
    /\ entities[2].type = "Company"
    /\ entities[3].type = "Person"

\* Rows m and n name the same company and the same person with roles that
\* differ, but only in letter case
SameButRoleCase(m, n) ==
    /\ HasPerson(processed[m]) /\ HasPerson(processed[n])
    /\ OrgName(processed[m]) = OrgName(processed[n])
    /\ PersonName(processed[m]) = PersonName(processed[n])
    /\ Truthy(Contact(processed[m])[2]) /\ Truthy(Contact(processed[n])[2])
    /\ Contact(processed[m])[2] /= Contact(processed[n])[2]
    /\ Lower(Contact(processed[m])[2]) = Lower(Contact(processed[n])[2])

\* The roles, as extracted, of the consumed rows that name the person and
\* company of row m and whose lower-cased role is that of row m
RoleSpellings(m) ==
    { Contact(processed[k])[2] :
        k \in { j \in 1..Len(processed) :
                  /\ HasPerson(processed[j])
                  /\ OrgName(processed[j]) = OrgName(processed[m])
                  /\ PersonName(processed[j]) = PersonName(processed[m])
                  /\ Truthy(Contact(processed[j])[2])
                  /\ Lower(Contact(processed[j])[2]) = Lower(Contact(processed[m])[2]) } }

\* C11: two consumed rows with the same person, the same company and
\* roles differing only in letter case have two relationships, both with
\* that person, that company and the lower-cased role: there is one such
\* relationship per spelling of the role among the consumed rows.
C11_RoleCaseGivesTwo ==
    pc /= "error" =>
        \A m, n \in 1..Len(processed) :
            SameButRoleCase(m, n) =>
                /\ Cardinality(RoleSpellings(m)) >= 2
                /\ Cardinality({ i \in 1..Len(relationships) :
                      /\ relationships[i].sourceEntityId = IdOf("Person", PersonName(processed[m]))
                      /\ relationships[i].targetEntityId = IdOf("Company", OrgName(processed[m]))
                      /\ relationships[i].role = Lower(Contact(processed[m])[2]) })
                   = Cardinality(RoleSpellings(m))

C11_Witness ==
    /\ pc = "done"
    /\ Len(processed) = 2
    /\ SameButRoleCase(1, 2)
    /\ Len(relationships) = 2
    /\ Cardinality(relation_keys) = 2

\* The company entity of record f holds every non-empty trimmed value of
\* f's columns other than the organisation name
HoldsColumnsOf(e, f) ==
    \A c \in Range(fieldnames) \ {ORG} :
        Strip(ColumnField(f, c)) /= <<>> =>
            /\ c \in DOMAIN e.attributes
            /\ Strip(ColumnField(f, c)) \in ValueSet(e.attributes[c])

\* C12: consuming a row with an organisation name whose contact field
\* gives no person leaves the person registry, the relationship list and
\* the dedup-key set unchanged, and afterwards the row's company is
\* registered and holds the row's non-empty columns, the raw contact
\* column included.
C12_NotFoundRow ==
    [][(/\ pc = "scan"
        /\ Len(processed') = Len(processed) + 1
        /\ HasOrg(processed'[Len(processed')])
        /\ Len(Contact(processed'[Len(processed')])) /= 3)
       => /\ UNCHANGED <<persons, relationships, relation_keys>>
          /\ \E i \in 1..Len(companies') :
                /\ companies'[i].canonicalName = OrgName(processed'[Len(processed')])
                /\ HoldsColumnsOf(companies'[i], processed'[Len(processed')])]_vars

C12_Witness ==
    /\ pc = "scan"
    /\ Len(processed) = 2
    /\ HasPerson(processed[1])
    /\ HasOrg(processed[2])
    /\ Len(Contact(processed[2])) /= 3
    /\ ColumnField(processed[2], PHONE) = <<"1"," ","(","1","2",")">>
    /\ OrgName(processed[2]) /= OrgName(processed[1])
    /\ Len(companies) = 2
    /\ <<"1"," ","(","1","2",")">> \in companies[2].attributes[PHONE].v
    /\ Len(persons) = 1
    /\ Len(relationships) = 1

\* The loop body, run on row again right after it gave r1, changes nothing
SecondRunChangesNothing(r1, row) ==
    r1.status /= "error" => process_row(r1.st, row).st = r1.st

\* C13: from every state of the scan and for every record, the loop body
\* run twice in a row on that record leaves the registries with all their
\* attribute sets, the relationship list and the dedup-key set as the
\* first run left them.
C13_RowIdempotent ==
    pc = "scan" =>
        \A f \in Records(fieldnames) :
            SecondRunChangesNothing(process_row(Cur, DictRow(fieldnames, f)),
                                    DictRow(fieldnames, f))

C13_Witness ==
    /\ pc = "scan"
    /\ Len(processed) = 2
    /\ processed[1] = processed[2]
    /\ HasPerson(processed[1])
    /\ Len(companies) = 1
    /\ Len(persons) = 1
    /\ PHONE \in DOMAIN persons[1].attributes
    /\ Len(relationships) = 1
    /\ Cardinality(relation_keys) = 1

\* Every entity of registry a is still in registry b, at its place
Persists(a, b) ==
    /\ Len(a) <= Len(b)
    /\ \A i \in 1..Len(a) :
          /\ b[i].entityId = a[i].entityId
          /\ b[i].type = a[i].type
          /\ b[i].canonicalName = a[i].canonicalName

\* Every attribute value set of registry a is included in that of b
AttributesGrow(a, b) ==
    \A i \in 1..Len(a) :
        \A k \in DOMAIN a[i].attributes :
            /\ k \in DOMAIN b[i].attributes
            /\ a[i].attributes[k].v \subseteq b[i].attributes[k].v

IsPrefix(a, b) ==
    /\ Len(a) <= Len(b)
    /\ \A i \in 1..Len(a) : b[i] = a[i]

\* C14: every step keeps every registered entity, keeps the relationship
\* list as a prefix of the next one (so no relationship is removed or
\* modified) and keeps every dedup key; every step of the scan keeps every
\* value of every attribute set.
C14_Monotone ==
    [][/\ Persists(companies, companies')
       /\ Persists(persons, persons')
       /\ IsPrefix(relationships, relationships')
       /\ relation_keys \subseteq relation_keys'
       /\ pc' /= "done" =>
             /\ AttributesGrow(companies, companies')
             /\ AttributesGrow(persons, persons')]_vars

C14_Witness ==
    /\ pc = "scan"
    /\ Len(processed) = 2
    /\ Len(companies) = 1
    /\ Len(persons) = 2
    /\ Len(relationships) = 2
    /\ Cardinality(companies[1].attributes[PHONE].v) = 2

\* Identity of every entity of registry a is what it was, in registry b
IdentityKept(a, b) ==
    /\ Persists(a, b)
    /\ \A i \in 1..Len(a) : b[i].mentions = a[i].mentions

MentionsAreName(reg) ==
    \A i \in 1..Len(reg) : reg[i].mentions = <<reg[i].canonicalName>>

Registered(reg, name) == \E i \in 1..Len(reg) : reg[i].canonicalName = name

\* C15: a row that names an already registered company or person adds no
\* entity for it; no step alters the entityId, type, canonicalName or
\* mentions of a registered entity; mentions is always the one-element
\* sequence of the canonical name, in the registries and in the output.
C15_SightingKeepsEntity ==
    [][/\ IdentityKept(companies, companies')
       /\ IdentityKept(persons, persons')
       /\ MentionsAreName(companies') /\ MentionsAreName(persons')
       /\ MentionsAreName(entities')
       /\ (/\ Len(processed') = Len(processed) + 1
           /\ HasOrg(processed'[Len(processed')])
           /\ Registered(companies, OrgName(processed'[Len(processed')])))
          => Len(companies') = Len(companies)
       /\ (/\ Len(processed') = Len(processed) + 1
           /\ HasPerson(processed'[Len(processed')])
           /\ Registered(persons, PersonName(processed'[Len(processed')])))
          => Len(persons') = Len(persons)]_vars

C15_Witness ==
    /\ pc = "done"
    /\ Len(processed) = 2
    /\ HasPerson(processed[1]) /\ HasPerson(processed[2])
    /\ processed[1] /= processed[2]
    /\ OrgName(processed[1]) = OrgName(processed[2])
    /\ PersonName(processed[1]) = PersonName(processed[2])
    /\ Len(companies) = 1
    /\ Len(persons) = 1
    /\ entities[1].mentions = <<OrgName(processed[1])>>
    /\ entities[2].mentions = <<PersonName(processed[1])>>
    /\ Len(relationships) = 2

\* No attribute of the registry has been finalized
AllSets(reg) ==
    \A i \in 1..Len(reg) : \A k \in DOMAIN reg[i].attributes :
        reg[i].attributes[k].kind = "set"

\* finalize applied to entity e leaves every attribute value as it is
FinalizeAgainChangesNothing(e) ==
    /\ DOMAIN finalize(e).attributes = DOMAIN e.attributes
    /\ \A k \in DOMAIN e.attributes :
          /\ finalize(e).attributes[k].kind = e.attributes[k].kind
          /\ finalize(e).attributes[k].v = e.attributes[k].v

\* C18: no attribute is finalized while rows are scanned; the return
\* finalizes every entity, and finalize applied again to any returned
\* entity leaves every attribute value unchanged; nothing runs after the
\* return, so each entity is finalized once.
C18_FinalizeOnceIdempotent ==
    [][/\ pc /= "done"
       /\ pc' /= "done" => AllSets(companies') /\ AllSets(persons')
       /\ pc' = "done" =>
             /\ AllSets(companies) /\ AllSets(persons)
             /\ Len(entities') = Len(companies) + Len(persons)
             /\ \A i \in 1..Len(entities') :
                   /\ \A k \in DOMAIN entities'[i].attributes :
                         entities'[i].attributes[k].kind /= "set"
                   /\ FinalizeAgainChangesNothing(entities'[i])]_vars

C18_Witness ==
    /\ pc = "done"
    /\ \E i \in 1..Len(entities) : \E k \in DOMAIN entities[i].attributes :
          /\ entities[i].attributes[k].kind = "scalar"
          /\ Len(entities[i].attributes[k].v) >= 2
    /\ \E i \in 1..Len(entities) : \E k \in DOMAIN entities[i].attributes :
          /\ entities[i].attributes[k].kind = "list"
          /\ \E n \in 1..Len(entities[i].attributes[k].v) :
                Len(entities[i].attributes[k].v[n]) >= 2
    /\ Len(entities) = 3

\* C19: every relationship's source is the id of a Person entity the
\* pipeline holds, its target the id of a Company entity it holds, and its
\* effectiveDate is null.
C19_ReferentialIntegrity ==
    \A r \in 1..Len(relationships) :
        /\ \E i \in 1..Len(Ents) :
              Ents[i].type = "Person"
                 /\ Ents[i].entityId = relationships[r].sourceEntityId
        /\ \E i \in 1..Len(Ents) :
              Ents[i].type = "Company"
                 /\ Ents[i].entityId = relationships[r].targetEntityId
        /\ relationships[r].effectiveDate = NoneVal

C19_Witness ==
    /\ pc = "done"
    /\ Len(entities) = 4
    /\ Len(relationships) = 2
    /\ relationships[1].sourceEntityId = entities[3].entityId
    /\ relationships[1].targetEntityId = entities[1].entityId
    /\ relationships[2].sourceEntityId = entities[4].entityId
    /\ relationships[2].targetEntityId = entities[2].entityId

\* ------------------------------------------------------------------------
\* Claims on parse_person_field alone
\* ------------------------------------------------------------------------

\* The contact field is a phone-like lead and one group in parentheses
PhoneLead(c) ==
    /\ c.lead /= <<>>
    /\ c.lead[1] \in {"+"} \cup Range(Digits)
    /\ Range(c.lead) \cap {"(", ")"} = {}
    /\ c.inside /= <<>>
    /\ ")" \notin Range(c.inside)

HasLetter(t) == \E i \in 1..Len(t) : t[i] \in Range(UpperCase) \cup Range(LowerCase)

\* The separator the text is split at: the hyphen if there is one, else
\* the comma if there is one, else none
Separator(t) ==
    IF "-" \in Range(t) THEN "-" ELSE IF "," \in Range(t) THEN "," ELSE ""

NamePart(t) ==
    IF Separator(t) = "" THEN Strip(t)
    ELSE Strip(SubStr(t, 1, PosIn(Separator(t), t) - 1))

RolePart(t) ==
    IF Separator(t) = "" THEN NoneVal
    ELSE IF Strip(SubStr(t, PosIn(Separator(t), t) + 1, Len(t))) = <<>> THEN NoneVal
    ELSE Strip(SubStr(t, PosIn(Separator(t), t) + 1, Len(t)))

\* C16: for a contact field of the form phone (inside), the result is
\* NOT_FOUND when inside has no letter; otherwise the name and role are
\* the trimmed parts of inside before and after its first hyphen if it has
\* a hyphen, else before and after its first comma if it has a comma, else
\* the name is inside and the role is null.
C16_PatternBSplit ==
    (Len(parsed) > 0 /\ PhoneLead(contact)) =>
        IF ~HasLetter(contact.inside) THEN Len(parsed) = 1
        ELSE /\ Len(parsed) = 3
             /\ parsed[1] = NamePart(contact.inside)
             /\ parsed[2] = RolePart(contact.inside)

C16_Witness ==
    /\ Len(parsed) = 3
    /\ PhoneLead(contact)
    /\ contact.inside = <<"A", ",", "-", "b">>
    /\ parsed[1] = <<"A", ",">>
    /\ parsed[2] = <<"b">>

NoSurroundingSpace(t) == t = <<>> \/ (~IsSpace(t[1]) /\ ~IsSpace(t[Len(t)]))

\* C17: for every contact field of the form phone (inside) that gives a
\* person, the name has no surrounding whitespace and the role is null or
\* a non-empty string without surrounding whitespace.
C17_PatternBTrimmed ==
    (Len(parsed) = 3 /\ PhoneLead(contact)) =>
        /\ NoSurroundingSpace(parsed[1])
        /\ \/ parsed[2] = NoneVal
           \/ parsed[2] /= <<>> /\ NoSurroundingSpace(parsed[2])

C17_Witness ==
    /\ Len(parsed) = 3
    /\ PhoneLead(contact)
    /\ contact.inside = <<" ", "A", "-", " ">>
    /\ parsed[1] = <<"A">>
    /\ parsed[2] = NoneVal

====
